---- MODULE Spec2Model ----
(***************************************************************************)
(* catalyst: the Executor (core/executor.py) and the Inventory             *)
(* (core/inventory.py) as state machines.  One action per public method;   *)
(* an action is the whole method, the implicit connect included.  The      *)
(* transport (paramiko), the YAML parser and the file system are the       *)
(* environment: what they answer is chosen with \E.                        *)
(*                                                                         *)
(* `events' is the ordered list of what the last call did that the         *)
(* outside can observe: calls into the transport, logger calls, and        *)
(* finally "return" or the exception raised.  `call' describes the last    *)
(* call: its name, its arguments, the state it started from and its        *)
(* result.                                                                  *)
(***************************************************************************)
EXTENDS Naturals, Sequences, FiniteSets, TLC

VARIABLES client, sessions, channels, constructed, hosts, groups, adds, call, events

vars == <<client, sessions, channels, constructed, hosts, groups, adds, call, events>>

executorVars == <<client, sessions, channels>>

inventoryVars == <<constructed, hosts, groups, adds>>

(***************************************************************************)
(* Bounds of the model.                                                     *)
(***************************************************************************)
MaxClients == 2      \* SSHClient objects one Executor creates in a run
MaxChannels == 1     \* file-transfer channels left open on one session
MaxEnv == 2          \* entries of an env mapping
MaxListLen == 2      \* length of a list written in an inventory document
MaxAdds == 2         \* add_host calls made by the caller on one Inventory

(***************************************************************************)
(* Generic helpers.                                                         *)
(***************************************************************************)
Range(s) == {s[i] : i \in DOMAIN s}

SeqsUpTo(S, n) == UNION {[1..k -> S] : k \in 0..n}

Count(s, e) == Cardinality({i \in DOMAIN s : s[i] = e})

\* Index of the first occurrence of e in s, 0 when there is none.
FirstIndex(s, e) ==
    IF e \in Range(s) THEN CHOOSE i \in DOMAIN s : s[i] = e /\ \A j \in 1..(i - 1) : s[j] # e
    ELSE 0

NoDuplicates(s) == \A i, j \in DOMAIN s : s[i] = s[j] => i = j

(***************************************************************************)
(* Executor                                                                 *)
(*                                                                         *)
(* client   : 0 (None) or the id of the SSHClient object self.client holds *)
(* sessions : per SSHClient object, "none" (not created), "created"        *)
(*            (constructed, never connected), "open" or "closed"           *)
(* channels : per SSHClient object, the sftp channels opened on it and not *)
(*            closed                                                        *)
(***************************************************************************)
None == 0

ClientIds == 1..MaxClients

\* `if not self.client`: None is falsy, an SSHClient object is truthy
\* whether or not its connect succeeded.
Truthy(c) == c # None

\* paramiko.SSHClient(): a new object every time.
NewClient(sess) == CHOOSE i \in ClientIds : sess[i] = "none" /\ \A j \in 1..(i - 1) : sess[j] # "none"

CanCreateClient(sess) == \E i \in ClientIds : sess[i] = "none"

Commands == {"ls", ""}
EnvKeys == {"A", "B"}
EnvVals == {"1"}

\* An env mapping in insertion order: a sequence of <<key, value>> with
\* distinct keys; <<>> stands for both env=None and env={} (`env or {}`).
Envs == {e \in SeqsUpTo(EnvKeys \X EnvVals, MaxEnv) : \A i, j \in DOMAIN e : e[i][1] = e[j][1] => i = j}

ExitStatuses == {0, 1}

\* What the transport does with a command on a connected session: it fails
\* (exec_command or recv_exit_status raises), or it yields an exit status
\* and the captured output then decodes or does not.
ExecAnswers == {[kind |-> "fail", status |-> 0, decodes |-> FALSE]}
               \cup {[kind |-> "status", status |-> s, decodes |-> d] : s \in ExitStatuses, d \in BOOLEAN}

\* What the transport does with a transfer: the step that fails, or "ok".
TransferAnswers == {"ok", "open_sftp", "copy", "chmod"}

Modes == {"None", "0", "0o644"}

\* call.args: the arguments of the last call (those its operation has).
\* For from_yaml, `invalid' says whether some host entry of the document
\* lacks hostname or username and `listed' holds the <<group, host name>>
\* pairs of the document's groups section.  For add_host, `same' says
\* whether the Host passed is the object already stored under that name,
\* `differs' whether a Host with another group list was stored under it,
\* and `indexed' holds the groups that listed the name before the call.
NoArgs == [command |-> "", sudo |-> FALSE, env |-> <<>>, mode |-> "None", name |-> "", list |-> <<>>,
           kind |-> "", invalid |-> FALSE, same |-> FALSE, listed |-> {}, differs |-> FALSE,
           indexed |-> {}]

\* call.result when the call is no execute that reached exec_command.
NoResult == [status |-> 0, sent |-> "", handed |-> FALSE, value |-> <<>>, answer |-> [kind |-> "none", status |-> 0, decodes |-> FALSE]]

(***************************************************************************)
(* Executor.connect (executor.py 33-58).  The SSHClient object is stored   *)
(* in self.client before the transport connect is tried, and the except    *)
(* clause does not reset it.                                                *)
(***************************************************************************)
\* connect with one retry after a failed attempt.
ConnectEventsRetry(ok) ==
    IF ok THEN <<"SSHClient()", "log.info", "client.connect", "log.info">>
    ELSE <<"SSHClient()", "log.info", "client.connect", "client.connect", "log.error",
           "raise ExecutionError">>

ConnectEvents(ok) ==
    IF ok THEN <<"SSHClient()", "log.info", "client.connect", "log.info">>
    ELSE <<"SSHClient()", "log.info", "client.connect", "log.error", "raise ExecutionError">>

\* connect that logs a failure and returns instead of raising.
ConnectRunSwallows(sess, ok) ==
    LET id == NewClient(sess) IN
    [client |-> id,
     sessions |-> [sess EXCEPT ![id] = IF ok THEN "open" ELSE "created"],
     events |-> IF ok THEN ConnectEvents(ok) ELSE <<"SSHClient()", "log.info", "client.connect", "log.error">>,
     raised |-> FALSE]

ConnectRun(sess, ok) ==
    LET id == NewClient(sess) IN
    [client |-> id,
     sessions |-> [sess EXCEPT ![id] = IF ok THEN "open" ELSE "created"],
     events |-> ConnectEvents(ok),
     raised |-> ~ok]

\* `if not self.client: self.connect()` at the head of execute, upload_file
\* and download_file.
\* A lazy connect that connects on every call.
NeedsConnectAlways(c) == TRUE

NeedsConnect(c) == ~Truthy(c)

LazyConnect(c, sess, ok) ==
    IF NeedsConnect(c) THEN ConnectRun(sess, ok)
    ELSE [client |-> c, sessions |-> sess, events |-> <<>>, raised |-> FALSE]

(***************************************************************************)
(* The command string of execute (executor.py 80-89).                      *)
(***************************************************************************)
RECURSIVE JoinSpace(_)
\* " ".join(parts)
JoinSpace(parts) ==
    IF parts = <<>> THEN ""
    ELSE IF Len(parts) = 1 THEN parts[1]
    ELSE parts[1] \o " " \o JoinSpace(Tail(parts))

\* f"{k}={v}" for k, v in env.items()
Assignments(env) == [i \in DOMAIN env |-> env[i][1] \o "=" \o env[i][2]]

SudoCommand(command, sudo) == IF sudo THEN "sudo " \o command ELSE command

\* sudo applied after the env prefix: "sudo A=1 ls".
BuildCommandSudoOutside(command, sudo, env) ==
    LET env_str == JoinSpace(Assignments(env))
        cmd == IF env_str # "" THEN env_str \o " " \o command ELSE command
    IN  SudoCommand(cmd, sudo)

BuildCommand(command, sudo, env) ==
    LET cmd == SudoCommand(command, sudo)
        env_str == JoinSpace(Assignments(env))
    IN  IF env_str # "" THEN env_str \o " " \o cmd ELSE cmd

(***************************************************************************)
(* The try block of execute (executor.py 83-115) on SSHClient object id.   *)
(* A client that was never connected has no transport: exec_command        *)
(* raises.                                                                  *)
(***************************************************************************)
\* execute that treats a non-zero exit status as a failure.
ExecEventsStrict(open, ans) ==
    IF ~open \/ ans.kind = "fail"
    THEN <<"log.debug", "client.exec_command", "log.error", "raise ExecutionError">>
    ELSE IF ~ans.decodes \/ ans.status # 0
    THEN <<"log.debug", "client.exec_command", "recv_exit_status", "decode",
           "log.error", "raise ExecutionError">>
    ELSE <<"log.debug", "client.exec_command", "recv_exit_status", "decode",
           "log.debug", "return">>

ExecEvents(open, ans) ==
    IF ~open \/ ans.kind = "fail"
    THEN <<"log.debug", "client.exec_command", "log.error", "raise ExecutionError">>
    ELSE IF ~ans.decodes
    THEN <<"log.debug", "client.exec_command", "recv_exit_status", "decode",
           "log.error", "raise ExecutionError">>
    ELSE IF ans.status # 0
    THEN <<"log.debug", "client.exec_command", "recv_exit_status", "decode",
           "log.warning", "return">>
    ELSE <<"log.debug", "client.exec_command", "recv_exit_status", "decode",
           "log.debug", "return">>

Outcome(ev) ==
    IF ev = <<>> THEN "none"
    ELSE IF ev[Len(ev)] = "raise ExecutionError" THEN "ExecutionError"
    ELSE IF ev[Len(ev)] = "raise InventoryError" THEN "InventoryError"
    ELSE "return"

PreOf(c, sess) == [client |-> c, state |-> IF c = None THEN "none" ELSE sess[c]]

Execute(command, sudo, env, connOk, ans) ==
    /\ NeedsConnect(client) => CanCreateClient(sessions)
    /\ LET c == LazyConnect(client, sessions, connOk)
           open == c.sessions[c.client] = "open"
           ev == IF c.raised THEN c.events ELSE c.events \o ExecEvents(open, ans)
           handed == ~c.raised
       IN  /\ client' = c.client
           /\ sessions' = c.sessions
           /\ events' = ev
           /\ call' = [op |-> "execute",
                       args |-> [NoArgs EXCEPT !.command = command, !.sudo = sudo, !.env = env],
                       pre |-> PreOf(client, sessions),
                       outcome |-> Outcome(ev),
                       result |-> IF handed
                                  THEN [status |-> IF Outcome(ev) = "return" THEN ans.status ELSE 0,
                                        sent |-> BuildCommand(command, sudo, env),
                                        handed |-> TRUE,
                                        value |-> <<>>,
                                        answer |-> IF open THEN ans ELSE NoResult.answer]
                                  ELSE NoResult]
    /\ UNCHANGED <<channels, inventoryVars>>

\* `self.client = paramiko.SSHClient()' (line 36) drops the Executor's only
\* reference to the SSHClient it held; connect does not close it.  Whether
\* the transport library then closes the session of the unreferenced
\* object (on garbage collection) is up to the library and the runtime.
Replaces(c, sess) == Truthy(c) /\ sess[c] = "open"

ReclaimAnswers == IF Replaces(client, sessions) THEN BOOLEAN ELSE {FALSE}

Reclaim(f, c, reclaimed, released) == IF reclaimed THEN [f EXCEPT ![c] = released] ELSE f

Connect(ok, reclaimed) ==
    /\ CanCreateClient(sessions)
    /\ reclaimed => Replaces(client, sessions)
    /\ LET c == ConnectRun(sessions, ok)
       IN  /\ client' = c.client
           /\ sessions' = Reclaim(c.sessions, client, reclaimed, "closed")
           /\ events' = IF c.raised THEN c.events ELSE c.events \o <<"return">>
           /\ call' = [op |-> "connect", args |-> NoArgs, pre |-> PreOf(client, sessions),
                       outcome |-> IF c.raised THEN "ExecutionError" ELSE "return",
                       result |-> NoResult]
    /\ channels' = Reclaim(channels, client, reclaimed, 0)
    /\ UNCHANGED inventoryVars

(***************************************************************************)
(* Executor.close (executor.py 178-183).  Closing the session closes the   *)
(* channels opened on it.                                                   *)
(***************************************************************************)
\* close that forgets `self.client = None'.
CloseKeeps(c) == c

\* `self.client = None' (line 182).
CloseClears(c) == None

Close ==
    /\ IF Truthy(client)
       THEN /\ sessions' = [sessions EXCEPT ![client] = IF @ = "open" THEN "closed" ELSE @]
            /\ channels' = [channels EXCEPT ![client] = 0]
            /\ client' = CloseClears(client)
            /\ events' = <<"client.close", "log.info", "return">>
       ELSE /\ UNCHANGED <<sessions, channels, client>>
            /\ events' = <<"return">>
    /\ call' = [op |-> "close", args |-> NoArgs, pre |-> PreOf(client, sessions),
                outcome |-> "return", result |-> NoResult]
    /\ UNCHANGED inventoryVars

(***************************************************************************)
(* Executor.upload_file (executor.py 117-148) and download_file (150-176). *)
(* sftp.close() is the last statement of the try block: a failing copy or  *)
(* chmod skips it.                                                          *)
(***************************************************************************)
\* `if mode:' instead of `if mode is not None': mode 0 is skipped.
AppliesModeTruthy(mode) == mode \notin {"None", "0"}

\* `if mode is not None`
AppliesMode(mode) == mode # "None"

\* [events, opened, closed]: what the try block does on a client whose
\* session is open or not, when the transport answers ans.
UploadRun(open, mode, ans) ==
    IF ~open \/ ans = "open_sftp"
    THEN [events |-> <<"client.open_sftp", "log.error", "raise ExecutionError">>, opened |-> 0, closed |-> 0]
    ELSE IF ans = "copy"
    THEN [events |-> <<"client.open_sftp", "log.info", "sftp.put", "log.error", "raise ExecutionError">>,
          opened |-> 1, closed |-> 0]
    ELSE IF AppliesMode(mode) /\ ans = "chmod"
    THEN [events |-> <<"client.open_sftp", "log.info", "sftp.put", "sftp.chmod", "log.error",
                       "raise ExecutionError">>,
          opened |-> 1, closed |-> 0]
    ELSE IF AppliesMode(mode)
    THEN [events |-> <<"client.open_sftp", "log.info", "sftp.put", "sftp.chmod", "sftp.close",
                       "log.info", "return">>,
          opened |-> 1, closed |-> 1]
    ELSE [events |-> <<"client.open_sftp", "log.info", "sftp.put", "sftp.close", "log.info", "return">>,
          opened |-> 1, closed |-> 1]

DownloadRun(open, ans) ==
    IF ~open \/ ans = "open_sftp"
    THEN [events |-> <<"client.open_sftp", "log.error", "raise ExecutionError">>, opened |-> 0, closed |-> 0]
    ELSE IF ans = "copy"
    THEN [events |-> <<"client.open_sftp", "log.info", "sftp.get", "log.error", "raise ExecutionError">>,
          opened |-> 1, closed |-> 0]
    ELSE [events |-> <<"client.open_sftp", "log.info", "sftp.get", "sftp.close", "log.info", "return">>,
          opened |-> 1, closed |-> 1]

\* A transfer: the lazy connect, then the try block, whose run is onOpen on a
\* client with an open session and onUnconnected on one never connected.
Transfer(op, mode, connOk, onOpen, onUnconnected) ==
    /\ NeedsConnect(client) => CanCreateClient(sessions)
    /\ Truthy(client) => channels[client] < MaxChannels
    /\ LET c == LazyConnect(client, sessions, connOk)
           open == c.sessions[c.client] = "open"
           r == IF open THEN onOpen ELSE onUnconnected
           ev == IF c.raised THEN c.events ELSE c.events \o r.events
       IN  /\ client' = c.client
           /\ sessions' = c.sessions
           /\ channels' = IF c.raised THEN channels
                          ELSE [channels EXCEPT ![c.client] = (@ + r.opened) - r.closed]
           /\ events' = ev
           /\ call' = [op |-> op, args |-> [NoArgs EXCEPT !.mode = mode],
                       pre |-> PreOf(client, sessions), outcome |-> Outcome(ev), result |-> NoResult]
    /\ UNCHANGED inventoryVars

UploadFile(mode, connOk, ans) ==
    Transfer("upload_file", mode, connOk, UploadRun(TRUE, mode, ans), UploadRun(FALSE, mode, ans))

DownloadFile(connOk, ans) ==
    Transfer("download_file", "None", connOk, DownloadRun(TRUE, ans), DownloadRun(FALSE, ans))

(***************************************************************************)
(* Inventory                                                                *)
(*                                                                         *)
(* constructed : whether the Inventory object the model follows exists     *)
(* hosts  : self.hosts, host name -> Host.  Of a Host the model keeps      *)
(*          `groups' (its group list) and `list', the identity of that     *)
(*          list object: Host.__init__ stores the list it is given         *)
(*          (`groups or []'), so two Hosts built from one list object      *)
(*          share it, and an append through one shows through the other.   *)
(* groups : self.groups, group name -> list of host names                  *)
(* adds   : add_host calls made by the caller so far                       *)
(***************************************************************************)
HostNames == {"h1", "h2"}
GroupNames == {"g1", "g2"}

\* The order in which a document lists its entries (names are symmetric).
HostOrder == <<"h1", "h2">>
GroupOrder == <<"g1", "g2">>

EmptyMap == [x \in {} |-> <<>>]

\* dict.setdefault: a key already present keeps its value.
PutIfAbsent(f, k, v) == [x \in DOMAIN f \cup {k} |-> IF x \in DOMAIN f THEN f[x] ELSE v]

\* f[k] = v
Put(f, k, v) == [x \in DOMAIN f \cup {k} |-> IF x = k THEN v ELSE f[x]]

EmptyInventory == [hosts |-> EmptyMap, groups |-> EmptyMap]

\* The smallest list identity no Host of hs uses.
FreshList(hs) ==
    CHOOSE i \in 1..(Cardinality(DOMAIN hs) + 1) :
        /\ \A h \in DOMAIN hs : hs[h].list # i
        /\ \A j \in 1..(i - 1) : \E h \in DOMAIN hs : hs[h].list = j

(***************************************************************************)
(* Inventory.add_host (inventory.py 53-61).                                 *)
(***************************************************************************)
\* Lines 57-60 for one group of host.groups.
\* Registration without the `if name not in self.groups[group]' test.
RegisterGroupAlways(gs, group, name) ==
    LET withKey == IF group \notin DOMAIN gs THEN Put(gs, group, <<>>) ELSE gs
    IN  [withKey EXCEPT ![group] = Append(@, name)]

RegisterGroup(gs, group, name) ==
    LET withKey == IF group \notin DOMAIN gs THEN Put(gs, group, <<>>) ELSE gs
    IN  IF name \notin Range(withKey[group])
        THEN [withKey EXCEPT ![group] = Append(@, name)]
        ELSE withKey

RECURSIVE RegisterGroups(_, _, _)
RegisterGroups(gs, list, name) ==
    IF list = <<>> THEN gs
    ELSE RegisterGroups(RegisterGroup(gs, Head(list), name), Tail(list), name)

\* add_host that registers the groups and never stores the Host.
AddHostRunIndexOnly(inv, name, host) ==
    [hosts |-> inv.hosts,
     groups |-> RegisterGroups(inv.groups, host.groups, name)]

AddHostRun(inv, name, host) ==
    [hosts |-> Put(inv.hosts, name, host),
     groups |-> RegisterGroups(inv.groups, host.groups, name)]

(***************************************************************************)
(* Inventory.from_yaml (inventory.py 75-109) on a parsed document.         *)
(*                                                                         *)
(* A document is [kind, hosts, groups].  kind: "unreadable" (open fails),  *)
(* "unparseable" (yaml.safe_load fails), "empty" (safe_load returns None)  *)
(* or "mapping".  hosts: per host name, [present, fields, groups, alias];  *)
(* fields says which required key the entry lacks, if any; alias says that *)
(* the entry's groups list is a YAML alias of the first entry's list       *)
(* (groups: *anchor), which safe_load turns into the same list object.     *)
(* groups: per group name, [present, hosts].                                *)
(***************************************************************************)
Fields == {"ok", "no_hostname", "no_username"}

HostLists == SeqsUpTo(GroupNames, MaxListLen)
\* A group entry can list names that are no host of the document.
ListedNames == HostNames \cup {"h3"}

\* A hosts list of a group entry is long enough to list every name once.
NameLists == SeqsUpTo(ListedNames, Cardinality(ListedNames))

AbsentHost == [present |-> FALSE, fields |-> "ok", groups |-> <<>>, alias |-> FALSE]
AbsentGroup == [present |-> FALSE, hosts |-> <<>>]

\* from_dict reads hostname and username before groups: the groups list of
\* an entry that lacks one of them is never looked at, and is left empty.
OwnEntries == {AbsentHost}
              \cup {[present |-> TRUE, fields |-> "ok", groups |-> l, alias |-> FALSE] : l \in HostLists}
              \cup {[present |-> TRUE, fields |-> f, groups |-> <<>>, alias |-> FALSE] : f \in Fields \ {"ok"}}

HostSections ==
    {hs \in [HostNames -> OwnEntries \cup
                          {[present |-> TRUE, fields |-> "ok", groups |-> l, alias |-> TRUE] :
                               l \in HostLists \ {<<>>}}] :
        /\ ~hs[HostOrder[1]].alias
        /\ hs[HostOrder[2]].alias =>
              /\ hs[HostOrder[1]].present
              /\ hs[HostOrder[2]].groups = hs[HostOrder[1]].groups}

GroupSections == [GroupNames -> {AbsentGroup} \cup {[present |-> TRUE, hosts |-> l] : l \in NameLists}]

\* Host.from_dict (inventory.py 32-43): data['hostname'] and
\* data['username'] raise KeyError when missing.
\* from_dict reading username with data.get: only hostname is required.
FromDictRaisesHostnameOnly(entry) == entry.fields = "no_hostname"

FromDictRaises(entry) == entry.fields # "ok"

\* The Host built from entry i of the document: `groups or []' keeps the
\* document's list object unless it is empty.
HostOfEntry(d, i) ==
    LET e == d.hosts[HostOrder[i]]
    IN  [groups |-> e.groups, list |-> IF e.alias /\ e.groups # <<>> THEN 1 ELSE i]

\* Lines 87-89 from entry i on: [inv, raised, events].
RECURSIVE LoadHosts(_, _, _, _)
LoadHosts(inv, d, i, ev) ==
    IF i > Len(HostOrder) THEN [inv |-> inv, raised |-> FALSE, events |-> ev]
    ELSE IF ~d.hosts[HostOrder[i]].present THEN LoadHosts(inv, d, i + 1, ev)
    ELSE IF FromDictRaises(d.hosts[HostOrder[i]]) THEN [inv |-> inv, raised |-> TRUE, events |-> ev]
    ELSE LoadHosts(AddHostRun(inv, HostOrder[i], HostOfEntry(d, i)), d, i + 1, Append(ev, "log.debug"))

\* host.groups.append(group) on the list object of host name.
AppendToGroups(hs, name, group) ==
    [h \in DOMAIN hs |-> IF hs[h].list = hs[name].list
                         THEN [hs[h] EXCEPT !.groups = Append(@, group)]
                         ELSE hs[h]]

\* Lines 95-100 for one host name of one group entry.
ResolveMember(inv, group_name, host_name) ==
    IF host_name \in DOMAIN inv.hosts
    THEN IF group_name \notin Range(inv.hosts[host_name].groups)
         THEN [hosts |-> AppendToGroups(inv.hosts, host_name, group_name),
               groups |-> LET gs == IF group_name \notin DOMAIN inv.groups
                                    THEN Put(inv.groups, group_name, <<>>)
                                    ELSE inv.groups
                          IN  [gs EXCEPT ![group_name] = Append(@, host_name)]]
         ELSE inv
    ELSE inv

RECURSIVE ResolveMembers(_, _, _)
ResolveMembers(inv, group_name, names) ==
    IF names = <<>> THEN inv
    ELSE ResolveMembers(ResolveMember(inv, group_name, Head(names)), group_name, Tail(names))

\* Lines 92-100 from group entry i on.
RECURSIVE LoadGroups(_, _, _)
LoadGroups(inv, d, i) ==
    IF i > Len(GroupOrder) THEN inv
    ELSE IF ~d.groups[GroupOrder[i]].present THEN LoadGroups(inv, d, i + 1)
    ELSE LoadGroups(ResolveMembers(inv, GroupOrder[i], d.groups[GroupOrder[i]].hosts), d, i + 1)

FailLoad(ev) == ev \o <<"log.error", "raise InventoryError">>

\* [inv, events]: the whole of from_yaml.
FromYamlRun(d) ==
    IF d.kind = "unreadable" THEN [inv |-> EmptyInventory, events |-> FailLoad(<<"open">>)]
    ELSE IF d.kind = "unparseable"
    THEN [inv |-> EmptyInventory, events |-> FailLoad(<<"open", "yaml.safe_load">>)]
    ELSE IF d.kind = "empty"
    THEN [inv |-> EmptyInventory, events |-> FailLoad(<<"open", "yaml.safe_load">>)]
    ELSE LET h == LoadHosts(EmptyInventory, d, 1, <<"open", "yaml.safe_load">>)
         IN  IF h.raised THEN [inv |-> h.inv, events |-> FailLoad(h.events)]
             ELSE [inv |-> LoadGroups(h.inv, d, 1),
                   events |-> h.events \o <<"log.info", "log.debug", "return">>]

DocKinds == {"unreadable", "unparseable", "empty", "mapping"}

\* A document that open or safe_load rejects, or that holds nothing.
BadDocument(kind) ==
    [kind |-> kind, hosts |-> [h \in HostNames |-> AbsentHost], groups |-> [g \in GroupNames |-> AbsentGroup]]

MappingDocument(hs, gs) == [kind |-> "mapping", hosts |-> hs, groups |-> gs]

\* The <<group, host name>> pairs a document's groups section lists.
Listed(d) ==
    {p \in GroupNames \X ListedNames : d.groups[p[1]].present /\ p[2] \in Range(d.groups[p[1]].hosts)}

HasInvalidEntry(d) == \E h \in HostNames : d.hosts[h].present /\ d.hosts[h].fields # "ok"

\* from_yaml is a classmethod: it builds the Inventory the model follows.
\* A failed load returns no Inventory.
NotYetBuilt == ~constructed /\ call.op = "none"

FromYaml(d) ==
    /\ NotYetBuilt
    /\ \E r \in {FromYamlRun(d)} : \E ok \in {Outcome(r.events) = "return"} :
           /\ constructed' = ok
           /\ hosts' = IF ok THEN r.inv.hosts ELSE EmptyMap
           /\ groups' = IF ok THEN r.inv.groups ELSE EmptyMap
           /\ events' = r.events
           /\ call' = [op |-> "from_yaml",
                       args |-> [NoArgs EXCEPT !.kind = d.kind,
                                               !.invalid = d.kind = "mapping" /\ HasInvalidEntry(d),
                                               !.listed = Listed(d)],
                       pre |-> PreOf(None, sessions), outcome |-> Outcome(r.events), result |-> NoResult]
    /\ UNCHANGED <<executorVars, adds>>

\* Inventory(): inventory.py 48-51.
NewInventory ==
    /\ NotYetBuilt
    /\ constructed' = TRUE
    /\ hosts' = EmptyMap
    /\ groups' = EmptyMap
    /\ events' = <<"return">>
    /\ call' = [op |-> "Inventory", args |-> NoArgs, pre |-> PreOf(None, sessions),
                outcome |-> "return", result |-> NoResult]
    /\ UNCHANGED <<executorVars, adds>>

\* The groups whose list in the index has name.
IndexedUnder(gs, name) == {g \in DOMAIN gs : name \in Range(gs[g])}

\* The Hosts a caller can pass to add_host: a new Host(groups=l), or a Host
\* object the inventory already holds (under the same or another name).
HostsToAdd(name) ==
    LET others == [h \in DOMAIN hosts \ {name} |-> hosts[h]]
    IN  {[groups |-> l, list |-> FreshList(others)] : l \in HostLists}
        \cup {hosts[h] : h \in DOMAIN hosts}

AddHost(name, host) ==
    /\ constructed
    /\ adds < MaxAdds
    /\ adds' = adds + 1
    /\ LET inv == AddHostRun([hosts |-> hosts, groups |-> groups], name, host)
       IN  /\ hosts' = inv.hosts
           /\ groups' = inv.groups
    /\ events' = <<"log.debug", "return">>
    /\ call' = [op |-> "add_host", args |-> [NoArgs EXCEPT !.name = name, !.list = host.groups,
                                                    !.same = name \in DOMAIN hosts /\ hosts[name] = host,
                                                    !.differs = name \in DOMAIN hosts
                                                                /\ hosts[name].groups # host.groups,
                                                    !.indexed = IndexedUnder(groups, name)],
                pre |-> PreOf(None, sessions), outcome |-> "return", result |-> NoResult]
    /\ UNCHANGED <<executorVars, constructed>>

(***************************************************************************)
(* Inventory.get_host (inventory.py 63-67) and get_group_hosts (69-73).    *)
(* Neither calls the logger.                                                *)
(***************************************************************************)
\* get_host written with dict.get: a missing name is returned as None.
GetHostEventsLenient(hs, name) == <<"return">>

GetHostEvents(hs, name) ==
    IF name \notin DOMAIN hs THEN <<"raise InventoryError">> ELSE <<"return">>

GetHost(name) ==
    /\ constructed
    /\ events' = GetHostEvents(hosts, name)
    /\ call' = [op |-> "get_host", args |-> [NoArgs EXCEPT !.name = name],
                pre |-> PreOf(None, sessions), outcome |-> Outcome(GetHostEvents(hosts, name)),
                result |-> [NoResult EXCEPT !.value = IF name \in DOMAIN hosts THEN <<name>> ELSE <<>>]]
    /\ UNCHANGED <<executorVars, inventoryVars>>

\* self.hosts[host] raises KeyError for a listed name that is no key.
GetGroupHostsEvents(hs, gs, group) ==
    IF group \notin DOMAIN gs THEN <<"raise InventoryError">>
    ELSE IF \E i \in DOMAIN gs[group] : gs[group][i] \notin DOMAIN hs THEN <<"raise KeyError">>
    ELSE <<"return">>

GetGroupHosts(group) ==
    /\ constructed
    /\ events' = GetGroupHostsEvents(hosts, groups, group)
    /\ call' = [op |-> "get_group_hosts", args |-> [NoArgs EXCEPT !.name = group],
                pre |-> PreOf(None, sessions),
                outcome |-> Outcome(GetGroupHostsEvents(hosts, groups, group)),
                result |-> [NoResult EXCEPT !.value =
                               IF Outcome(GetGroupHostsEvents(hosts, groups, group)) = "return"
                               THEN groups[group] ELSE <<>>]]
    /\ UNCHANGED <<executorVars, inventoryVars>>

(***************************************************************************)
(* Specifications.                                                          *)
(***************************************************************************)
Init ==
    /\ client = None
    /\ sessions = [i \in ClientIds |-> "none"]
    /\ channels = [i \in ClientIds |-> 0]
    /\ constructed = FALSE
    /\ hosts = EmptyMap
    /\ groups = EmptyMap
    /\ adds = 0
    /\ call = [op |-> "none", args |-> NoArgs, pre |-> PreOf(None, [i \in ClientIds |-> "none"]),
               outcome |-> "none", result |-> NoResult]
    /\ events = <<>>

\* The transport is asked to connect only by a call that connects.
ConnectAnswers == IF Truthy(client) THEN {TRUE} ELSE BOOLEAN

NextExecutor ==
    \/ \E ok \in BOOLEAN, reclaimed \in ReclaimAnswers : Connect(ok, reclaimed)
    \/ \E ok \in ConnectAnswers, ans \in ExecAnswers :
          \E command \in Commands, sudo \in BOOLEAN, env \in Envs : Execute(command, sudo, env, ok, ans)
    \/ \E mode \in Modes, ok \in ConnectAnswers, ans \in TransferAnswers : UploadFile(mode, ok, ans)
    \/ \E ok \in ConnectAnswers, ans \in TransferAnswers \ {"chmod"} : DownloadFile(ok, ans)
    \/ Close

NextInventory ==
    \/ NewInventory
    \/ NotYetBuilt /\ \E kind \in DocKinds \ {"mapping"} : FromYaml(BadDocument(kind))
    \/ NotYetBuilt /\ \E hs \in HostSections, gs \in GroupSections : FromYaml(MappingDocument(hs, gs))
    \/ \E name \in HostNames : \E host \in HostsToAdd(name) : AddHost(name, host)
    \/ \E name \in HostNames : GetHost(name)
    \/ \E group \in GroupNames : GetGroupHosts(group)

\* One Executor against a transport.
SpecExecutor == Init /\ [][NextExecutor]_vars

\* One Inventory, built by Inventory() or from_yaml, then used.
SpecInventory == Init /\ [][NextInventory]_vars

(***************************************************************************)
(* Properties.                                                              *)
(***************************************************************************)
TransportOps == {"execute", "upload_file", "download_file"}

Before(ev, a, b) == FirstIndex(ev, a) # 0 /\ FirstIndex(ev, a) < FirstIndex(ev, b)

\* C1: an execute on an Executor that holds no client performs exactly one
\* transport connect, and the command is handed to the transport only after
\* that connect, and only when the connect succeeded.
C1_ExecuteConnectsOnceFirst ==
    (call.op = "execute" /\ call.pre.client = None) =>
        /\ Count(events, "client.connect") = 1
        /\ "client.exec_command" \in Range(events) =>
              /\ Before(events, "client.connect", "client.exec_command")
              /\ Count(events, "client.exec_command") = 1
              /\ sessions[client] = "open"

C1_Witness ==
    /\ call.op = "execute"
    /\ call.pre.client = None
    /\ call.outcome = "return"
    /\ "client.exec_command" \in Range(events)

\* C2: a successful execute, upload_file or download_file on a connected
\* Executor performs no transport connect and keeps the same session; one
\* that starts with no client (first use, or first use after close)
\* performs exactly one connect; and close leaves no client.
C2_SessionReused ==
    /\ (call.op \in TransportOps /\ call.pre.state = "open" /\ call.outcome = "return") =>
          /\ client = call.pre.client
          /\ sessions[client] = "open"
          /\ Count(events, "client.connect") = 0
          /\ Count(events, "SSHClient()") = 0
    /\ (call.op \in TransportOps /\ call.pre.client = None) =>
          /\ Count(events, "client.connect") = 1
          /\ client # None
    /\ call.op = "close" => client = None

C2_Witness ==
    /\ call.op = "download_file"
    /\ call.outcome = "return"
    /\ call.pre.state = "open"
    /\ call.pre.client = 2
    /\ sessions[1] = "closed"

\* C3: close never raises and leaves the Executor without a client; on a
\* connected Executor it closes the session exactly once; a close directly
\* after a close closes nothing and changes no state.
C3_CloseIdempotent ==
    /\ [](call.op = "close" =>
            /\ call.outcome = "return"
            /\ client = None
            /\ call.pre.state = "open" =>
                  /\ Count(events, "client.close") = 1
                  /\ sessions[call.pre.client] = "closed"
            /\ call.pre.client = None => Count(events, "client.close") = 0)
    /\ [][(call.op = "close" /\ call'.op = "close") =>
             /\ UNCHANGED executorVars
             /\ (events' # events => Count(events', "client.close") = 0)]_vars

C3_Witness ==
    /\ call.op = "close"
    /\ call.pre.client = None
    /\ \E i \in ClientIds : sessions[i] = "closed"

\* C4: every call that raises InventoryError or ExecutionError has emitted
\* an error-level log record before raising.
C4_ErrorLoggedBeforeRaise ==
    call.outcome \in {"InventoryError", "ExecutionError"} =>
        \E i \in 1..(Len(events) - 1) : events[i] = "log.error"

\* C5: after a load, group G is in host H's group list exactly when H is in
\* the group index under G.
C5_MembershipBidirectional ==
    (call.op = "from_yaml" /\ call.outcome = "return") =>
        \A h \in DOMAIN hosts : \A g \in GroupNames :
            g \in Range(hosts[h].groups) <=> (g \in DOMAIN groups /\ h \in Range(groups[g]))

\* C6: after a load, no host's group list holds a group name twice.
C6_HostGroupsDuplicateFree ==
    (call.op = "from_yaml" /\ call.outcome = "return") =>
        \A h \in DOMAIN hosts : NoDuplicates(hosts[h].groups)

\* C7: no list of the group index holds a host name twice, after any load
\* and any add_host calls.
C7_GroupIndexDuplicateFree ==
    \A g \in DOMAIN groups : NoDuplicates(groups[g])

C7_Witness ==
    /\ call.op = "add_host"
    /\ call.args.same
    /\ call.args.list # <<>>
    /\ \A g \in Range(call.args.list) : call.args.name \in Range(groups[g])

\* The last call tried a transport connect and the transport refused it.
ConnectFailedInCall == "client.connect" \in Range(events) /\ sessions[client] = "created"

\* C8: a call whose transport connect fails raises ExecutionError after
\* exactly one connect attempt, and neither runs a command nor opens a
\* file-transfer channel.
C8_ConnectFailureNoRetry ==
    ConnectFailedInCall =>
        /\ call.outcome = "ExecutionError"
        /\ Count(events, "client.connect") = 1
        /\ "client.exec_command" \notin Range(events)
        /\ "client.open_sftp" \notin Range(events)

C8_Witness ==
    /\ ConnectFailedInCall
    /\ call.op = "upload_file"

\* The transport gave the last execute an exit status.
GotStatus == call.op = "execute" /\ call.result.answer.kind = "status"

ReturnsStatus ==
    /\ call.outcome = "return"
    /\ call.result.status = call.result.answer.status
    /\ "log.error" \notin Range(events)
    /\ "log.warning" \in Range(events) <=> call.result.answer.status # 0

\* C9 as stated: whatever exit status the transport returns, execute returns
\* a result with that status and raises nothing, and logs a warning exactly
\* when the status is not 0.
C9_AnyStatusReturned == GotStatus => ReturnsStatus

\* C9 amended: the same, for an execute whose captured output decodes.
C9_DecodedStatusReturned == (GotStatus /\ call.result.answer.decodes) => ReturnsStatus

C9_Witness ==
    /\ GotStatus
    /\ call.result.answer.decodes
    /\ call.result.answer.status = 1
    /\ call.outcome = "return"

\* The assignments of env[1..n], each KEY=VALUE, separated by single spaces.
RECURSIVE AssignmentsUpTo(_, _)
AssignmentsUpTo(env, n) ==
    IF n = 1 THEN env[1][1] \o "=" \o env[1][2]
    ELSE AssignmentsUpTo(env, n - 1) \o " " \o env[n][1] \o "=" \o env[n][2]

ExpectedCommand(command, sudo, env) ==
    LET sudoed == (IF sudo THEN "sudo " ELSE "") \o command
    IN  IF env = <<>> THEN sudoed ELSE AssignmentsUpTo(env, Len(env)) \o " " \o sudoed

\* C10: the string execute hands to the transport is the env assignments in
\* insertion order joined by single spaces, one space, "sudo " when sudo is
\* requested, then the command; with no env it is the command, sudo-prefixed
\* when requested, with no leading space.
C10_CommandString ==
    (call.op = "execute" /\ call.result.handed) =>
        call.result.sent = ExpectedCommand(call.args.command, call.args.sudo, call.args.env)

C10_Witness ==
    /\ call.op = "execute"
    /\ call.result.handed
    /\ call.args.sudo
    /\ Len(call.args.env) = 2
    /\ call.result.sent = "B=1 A=1 sudo ls"

\* C11: get_host raises InventoryError exactly when the name is no key of
\* the host map, get_group_hosts raises InventoryError when the group is no
\* key of the group index, and neither lookup changes the host map or the
\* group index.
C11_LookupNotFound ==
    [][/\ call'.op = "get_host" =>
             /\ call'.outcome = "InventoryError" <=> call'.args.name \notin DOMAIN hosts
             /\ call'.outcome \in {"InventoryError", "return"}
             /\ UNCHANGED <<hosts, groups>>
       /\ call'.op = "get_group_hosts" =>
             /\ call'.args.name \notin DOMAIN groups => call'.outcome = "InventoryError"
             /\ UNCHANGED <<hosts, groups>>]_vars

C11_Witness ==
    /\ call.op = "get_group_hosts"
    /\ call.outcome = "InventoryError"
    /\ DOMAIN groups # {}
    /\ DOMAIN hosts # {}

\* C12: every host name stored in the group index is a key of the host
\* map, so get_group_hosts on a group of the index returns, and returns the
\* hosts of the group's list in its order.
C12_GroupHostsResolvable ==
    /\ \A g \in DOMAIN groups : Range(groups[g]) \subseteq DOMAIN hosts
    /\ (call.op = "get_group_hosts" /\ call.args.name \in DOMAIN groups) =>
          /\ call.outcome = "return"
          /\ call.result.value = groups[call.args.name]

C12_Witness ==
    /\ call.op = "get_group_hosts"
    /\ call.outcome = "return"
    /\ Len(call.result.value) = 2
    /\ adds > 0

\* C13: a load of a document with a host entry that lacks hostname or
\* username raises InventoryError and yields no Inventory, wherever the
\* entry stands among the hosts.
C13_InvalidEntryFailsLoad ==
    (call.op = "from_yaml" /\ call.args.invalid) =>
        /\ call.outcome = "InventoryError"
        /\ ~constructed
        /\ hosts = EmptyMap
        /\ groups = EmptyMap

\* The invalid entry is the second one: a valid host was added before it.
C13_Witness ==
    /\ call.op = "from_yaml"
    /\ call.args.invalid
    /\ call.outcome = "InventoryError"
    /\ Count(events, "log.debug") = 1

FileTransfers == {"upload_file", "download_file"}

\* C14: a successful upload_file or download_file opens one file-transfer
\* channel and closes it before returning, does not close the session (the
\* Executor stays connected) and leaves no further channel open; upload_file
\* applies the mode, after the copy, exactly when a mode other than None was
\* given.
C14_TransferClosesChannelOnly ==
    [][(call'.op \in FileTransfers /\ call'.outcome = "return") =>
          /\ Count(events', "client.open_sftp") = 1
          /\ Count(events', "sftp.close") = 1
          /\ Before(events', "client.open_sftp", "sftp.close")
          /\ Count(events', "client.close") = 0
          /\ client' # None
          /\ sessions'[client'] = "open"
          /\ channels' = channels
          /\ call'.op = "upload_file" =>
                /\ Count(events', "sftp.chmod") = (IF call'.args.mode # "None" THEN 1 ELSE 0)
                /\ "sftp.chmod" \in Range(events') =>
                      /\ Before(events', "sftp.put", "sftp.chmod")
                      /\ Before(events', "sftp.chmod", "sftp.close")]_vars

C14_Witness ==
    /\ call.op = "upload_file"
    /\ call.outcome = "return"
    /\ call.args.mode = "0"
    /\ "sftp.chmod" \in Range(events)
    /\ call.pre.state = "open"

\* The last call loaded a well-formed document whose groups section lists,
\* under group g, a name that is no host of the document.
ListsUnknownHost(g) ==
    /\ call.op = "from_yaml"
    /\ call.args.kind = "mapping"
    /\ ~call.args.invalid
    /\ \E p \in call.args.listed : p[1] = g /\ p[2] \notin DOMAIN hosts

\* C15: a group entry that lists an unknown host name does not fail the
\* load; the unknown name enters neither the host map nor any list of the
\* group index, and the known hosts of the same entry are registered in the
\* group.
C15_UnknownHostSkipped ==
    \A g \in GroupNames :
        ListsUnknownHost(g) =>
            /\ call.outcome = "return"
            /\ constructed
            /\ \A p \in call.args.listed :
                  p[2] \notin DOMAIN hosts => \A k \in DOMAIN groups : p[2] \notin Range(groups[k])
            /\ \A p \in call.args.listed :
                  (p[1] = g /\ p[2] \in DOMAIN hosts) => (g \in DOMAIN groups /\ p[2] \in Range(groups[g]))

\* C16: a transport operation called on an Executor whose last connect
\* failed (it holds a client that was never connected) attempts a new
\* connect and does not run on the client whose connection failed.
C16_FailedConnectReconnects ==
    (call.op \in TransportOps /\ call.pre.state = "created") =>
        /\ Count(events, "client.connect") = 1
        /\ client # call.pre.client
        /\ ("client.exec_command" \in Range(events) \/ "client.open_sftp" \in Range(events)) =>
              sessions[client] = "open"

OpenSessions == {i \in ClientIds : sessions[i] = "open"}

\* C17: at most one session opened by the Executor is open at any time, and
\* none is open right after close().
C17_AtMostOneSession ==
    /\ Cardinality(OpenSessions) <= 1
    /\ call.op = "close" => OpenSessions = {}

ChannelOpened == "sftp.put" \in Range(events) \/ "sftp.get" \in Range(events)

\* C18: when upload_file or download_file raises ExecutionError after its
\* file-transfer channel was opened, the channel has been closed.
C18_FailedTransferClosesChannel ==
    (call.op \in FileTransfers /\ call.outcome = "ExecutionError" /\ ChannelOpened) =>
        /\ Count(events, "sftp.close") = 1
        /\ channels[client] = 0

\* Every host name listed under a group of the index is stored, and the
\* Host stored under it has the group in its group list.
IndexConsistent ==
    \A g \in DOMAIN groups : \A h \in Range(groups[g]) :
        h \in DOMAIN hosts /\ g \in Range(hosts[h].groups)

\* C19 as stated: every add_host call, overwriting ones included, takes an
\* inventory whose group index agrees with the hosts' group lists to one
\* whose index agrees with them.
C19_AddHostPreservesIndex ==
    [][(call'.op = "add_host" /\ IndexConsistent) => IndexConsistent']_vars

\* C19: an add_host call whose Host's group list has every group under
\* which the name is already indexed takes an inventory whose group index
\* agrees with the hosts' group lists to one whose index agrees with them.
C19_AddHostKeepingGroups ==
    [][(/\ call'.op = "add_host"
        /\ IndexConsistent
        /\ IndexedUnder(groups, call'.args.name) \subseteq Range(call'.args.list)) => IndexConsistent']_vars

C19_Witness ==
    /\ call.op = "add_host"
    /\ call.args.differs
    /\ call.args.indexed # {}
    /\ call.args.indexed \subseteq Range(call.args.list)
    /\ \E g \in Range(call.args.list) : g \notin call.args.indexed
    /\ IndexConsistent

====
